---- MODULE Spec2Model ----
(***************************************************************************)
(* A state-machine model of loam::LaserOdometry                            *)
(* (src/loam_velodyne/LaserOdometry.cpp): the input gate, the              *)
(* initialization tick, the solver loop, the pose accumulation, the buffer *)
(* swap and the registered-cloud export.                                   *)
(*                                                                         *)
(* Representation.                                                         *)
(*  - A timestamp is a number of milliseconds.  Time is an int           *)
(*    (common.h) and hasNewData compares differences with 0.005, so in    *)
(*    seconds: whole seconds are the multiples of 1000.  The fields are    *)
(*    declared in LaserOdometry.h, so the host of the model also stamps    *)
(*    streams a few milliseconds apart, as a floating-point Time allows.   *)
(*  - A point is [x, intensity]: x is its x coordinate; intensity is the   *)
(*    channel in hundredths, ring * 100 + f with f in 0..10, so that the   *)
(*    relative time s = 10 * (intensity - int(intensity)) is f / 10.       *)
(*  - A cloud is a sequence of points; C++ index j is TLA+ index j + 1.    *)
(*  - A float is [fin, v]: a finite value v, or a non-finite one           *)
(*    (NaN, +-Inf) when fin is FALSE.                                      *)
(*  - Angles and lengths are integers in units fine enough that the        *)
(*    convergence thresholds are integers of the same units.               *)
(*  - process() runs as a sequence of steps (pc): the gate and, past it,   *)
(*    either the initialization tick (one step) or the entry of a tick,    *)
(*    two steps per solver iteration (the searches, then the solve and     *)
(*    the update) and the commit.  The host acts only between calls.       *)
(***************************************************************************)
EXTENDS Integers, Sequences, FiniteSets, TLC

VARIABLES
    scene,                  \* the world the core is run in
    params,                 \* _params
    systemInited,           \* _systemInited
    frameCount,             \* _frameCount
    newData,                \* _newCornerPointsSharp .. _newImuTrans
    timeOf,                 \* _timeCornerPointsSharp .. _timeImuTrans
    cornerPointsSharp,      \* _cornerPointsSharp
    cornerPointsLessSharp,  \* _cornerPointsLessSharp
    surfPointsFlat,         \* _surfPointsFlat
    surfPointsLessFlat,     \* _surfPointsLessFlat
    laserCloudFullRes,      \* _laserCloudFullRes
    lastCornerCloud,        \* _lastCornerCloud
    lastSurfaceCloud,       \* _lastSurfaceCloud
    lastCornerKDTree,       \* the cloud _lastCornerKDTree was built over
    lastSurfaceKDTree,      \* the cloud _lastSurfaceKDTree was built over
    imu,                    \* _imuPitchStart .. _imuVeloFromStart
    transform,              \* _transform
    transformSum,           \* _transformSum
    pc,                     \* where process() stands
    iterCount,              \* local iterCount of process()
    isConverged,            \* local isConverged of process()
    isDegenerate,           \* local isDegenerate of process()
    matP,                   \* local matP of process(): the rows it zeroes
    matX,                   \* local matX of process(): the update last applied
    pointSearchCornerInd1,  \* _pointSearchCornerInd1
    pointSearchCornerInd2,  \* _pointSearchCornerInd2
    pointSearchSurfInd1,    \* _pointSearchSurfInd1
    pointSearchSurfInd2,    \* _pointSearchSurfInd2
    pointSearchSurfInd3,    \* _pointSearchSurfInd3
    registeredRet,          \* what the latest generateRegisteredCloud() returned
    op,                     \* the operation that took the latest step
    processRet,             \* what the latest process() call returned
    returnedTrue,           \* how many process() calls have returned true
    tick,                   \* observations of the current (latest) tick
    poseFile,               \* the pose files: for each name, the tokens written
    poseCall                \* the arguments of the latest savePoseToFile()

Streams ==
    {"CornerPointsSharp", "CornerPointsLessSharp", "SurfPointsFlat",
     "SurfPointsLessFlat", "LaserCloudFullRes", "ImuTrans"}

Abs(a) == IF a < 0 THEN -a ELSE a

----------------------------------------------------------------------------
\* Bounds of the model.

MaxFrames == 4
MaxIterations == 2
\* No component of the incremental transform and no coordinate of the
\* exported cloud leaves -MaxCoord .. MaxCoord.
MaxCoord == 2
\* No pose file grows beyond this many lines.
MaxLines == 2

----------------------------------------------------------------------------
\* Program constants.

\* 0.005 s, the tolerance of hasNewData, in milliseconds.
TimeTolerance == 5
\* process() solves only if the previous corner cloud has more points than this
MinCornerCloud == 10
\* ... and the previous surface cloud has more points than this.
MinSurfaceCloud == 100

\* A squared distance below this (25 m^2) accepts the nearest neighbour.
MaxSqDis == 25
\* The correspondences are searched again every this many iterations.
SearchPeriod == 5
\* An iteration with fewer accepted correspondences than this is skipped.
MinPointSel == 10
\* An eigenvalue of AtA below this marks its direction as degenerate.
EignThre == 10

----------------------------------------------------------------------------
\* Values.

Fin(v) == [fin |-> TRUE, v |-> v]
NonFinite == [fin |-> FALSE, v |-> 0]
pcl_isfinite(f) == f.fin

Comps == <<"rot_x", "rot_y", "rot_z", "pos_x", "pos_y", "pos_z">>
CompSet == {Comps[k] : k \in 1..6}

\* Twist(): the zero pose, each component a float.
Twist == [c \in CompSet |-> Fin(0)]

FAdd(a, b) == IF a.fin /\ b.fin THEN Fin(a.v + b.v) ELSE NonFinite
FSub(a, b) == IF a.fin /\ b.fin THEN Fin(a.v - b.v) ELSE NonFinite

\* The accumulated pose: the six numbers it was seeded with, composed with
\* `composed` incremental transforms by accumulateRotation, rotateZXY and
\* pluginIMURotation (whose trigonometry is not evaluated).
TwistSum == [rot_x |-> 0, rot_y |-> 0, rot_z |-> 0,
             pos_x |-> 0, pos_y |-> 0, pos_z |-> 0, composed |-> 0]

Vector3(x, y, z) == [x |-> x, y |-> y, z |-> z]

\* pcl::PointXYZI(): x = 0 (y, z likewise), intensity = 0.
PointXYZI == [x |-> 0, intensity |-> 0]

\* int(point.intensity): the scan ring.
IntPart(intensity) == (intensity \div 100) * 100
Ring(p) == p.intensity \div 100
\* 10 * (intensity - int(intensity)), in tenths.
RelTime(p) == p.intensity - IntPart(p.intensity)

calcSquaredDiff(a, b) == (a.x - b.x) * (a.x - b.x)

----------------------------------------------------------------------------
\* What the host feeds: a few sweeps, each with its clouds, IMU hints and
\* timestamp.

\* n points in ring order (perRing points to a ring), the point at C++ index
\* a nearest to the origin, at distance x0, every second point taken at the
\* end of the sweep (s = 1) and the others at its start (s = 0).
MkCloud(n, x0, a, perRing) ==
    [i \in 1..n |->
        [x |-> x0 + Abs(i - 1 - a),
         intensity |-> ((i - 1) \div perRing) * 100 + (IF i % 2 = 0 THEN 10 ELSE 0)]]

MkImu(ps, ys, rs, pe, ye, re, shift, velo) ==
    [imuPitchStart |-> ps, imuYawStart |-> ys, imuRollStart |-> rs,
     imuPitchEnd |-> pe, imuYawEnd |-> ye, imuRollEnd |-> re,
     imuShiftFromStart |-> shift, imuVeloFromStart |-> velo]

\* Both previous-sweep clouds large enough to solve against, enough query
\* points for MinPointSel correspondences, a sensor at rest.
PlainSweep(t) ==
    [t |-> t,
     CornerPointsSharp |-> MkCloud(6, 1, 0, 2),
     CornerPointsLessSharp |-> MkCloud(MinCornerCloud + 1, 1, 3, 2),
     SurfPointsFlat |-> MkCloud(6, 1, 0, 2),
     SurfPointsLessFlat |-> MkCloud(MinSurfaceCloud + 1, 1, 50, 4),
     LaserCloudFullRes |-> MkCloud(2, 1, 0, 1),
     ImuTrans |-> MkImu(1, 0, 2, 1, 0, 2, Vector3(0, 0, 0), Vector3(0, 0, 0))]

\* The same clouds, a sensor that moves.
RichSweep ==
    [PlainSweep(1000) EXCEPT
        !.ImuTrans = MkImu(1, 2, 3, 4, 5, 6, Vector3(1, 0, 0), Vector3(0, 1, 0))]

\* A corner cloud at the threshold: too small to solve against.
ThinCornerSweep ==
    [t |-> 2000,
     CornerPointsSharp |-> MkCloud(2, 2, 0, 1),
     CornerPointsLessSharp |-> MkCloud(MinCornerCloud, 2, 5, 2),
     SurfPointsFlat |-> MkCloud(2, 2, 0, 1),
     SurfPointsLessFlat |-> MkCloud(MinSurfaceCloud + 1, 2, 49, 4),
     LaserCloudFullRes |-> MkCloud(2, 2, 0, 1),
     ImuTrans |-> MkImu(0, 0, 0, 0, 0, 0, Vector3(0, 0, 0), Vector3(0, 0, 1))]

\* A surface cloud at the threshold: too small to solve against.
ThinSurfaceSweep ==
    [t |-> 3000,
     CornerPointsSharp |-> MkCloud(6, 1, 1, 2),
     CornerPointsLessSharp |-> MkCloud(MinCornerCloud + 1, 1, 4, 2),
     SurfPointsFlat |-> MkCloud(6, 1, 1, 2),
     SurfPointsLessFlat |-> MkCloud(MinSurfaceCloud, 1, 51, 4),
     LaserCloudFullRes |-> MkCloud(2, 1, 1, 1),
     ImuTrans |-> MkImu(2, 0, 1, 2, 0, 1, Vector3(0, 0, 0), Vector3(0, 0, 0))]

\* A surface cloud whose point nearest to the origin is its second: the
\* forward scan of the surface search has points to visit.
NearSweep ==
    [PlainSweep(1000) EXCEPT !.SurfPointsLessFlat = MkCloud(MinSurfaceCloud + 1, 1, 1, 2)]

\* A longer corner cloud whose point nearest to the origin is its last.
FarSweep ==
    [PlainSweep(2000) EXCEPT
        !.CornerPointsLessSharp = MkCloud(MinCornerCloud + 3, 1, MinCornerCloud + 2, 2)]

\* How a delivery can go: in order, or one stream stamped off by some
\* milliseconds, or one stream not delivered.
InOrder == [late |-> "", skew |-> 0, skipped |-> ""]
Faulty ==
    {[late |-> s, skew |-> 5, skipped |-> ""] : s \in Streams}
    \cup {[late |-> "CornerPointsSharp", skew |-> k, skipped |-> ""] : k \in {-5, 4}}
    \cup {[late |-> "SurfPointsLessFlat", skew |-> -4, skipped |-> ""]}
    \cup {[late |-> "ImuTrans", skew |-> 1000, skipped |-> ""]}
    \cup {[late |-> "", skew |-> 0, skipped |-> s] : s \in Streams}

\* What colPivHouseholderQr().solve() can return for matX, and the
\* eigenvalues (ascending) SelfAdjointEigenSolver can return for matAtA: the
\* geometry that decides them is not part of the model.
MkX(rx, ry, rz, tx, ty, tz) ==
    [rot_x |-> rx, rot_y |-> ry, rot_z |-> rz, pos_x |-> tx, pos_y |-> ty, pos_z |-> tz]
XZero == MkX(Fin(0), Fin(0), Fin(0), Fin(0), Fin(0), Fin(0))
XSmall == MkX(Fin(1), Fin(0), Fin(0), Fin(0), Fin(1), Fin(0))
XLargeR == MkX(Fin(0), Fin(2), Fin(0), Fin(0), Fin(0), Fin(0))
XLargeT == MkX(Fin(0), Fin(0), Fin(0), Fin(0), Fin(0), Fin(2))
XNonFinite == MkX(NonFinite, Fin(1), Fin(0), Fin(1), NonFinite, Fin(0))
Regular == <<20, 20, 20, 20, 20, 20>>
WeakLeast == <<5, 20, 20, 20, 20, 20>>
WeakAll == <<5, 5, 5, 5, 5, 5>>

\* The worlds the core is run in: its configuration, the sweeps and the
\* deliveries of its host, and the solutions the geometry admits.
Scenes ==
    {[name |-> "faults",
      params |-> [scanPeriod |-> 1, maxIterations |-> 1,
                  deltaTAbort |-> 2, deltaRAbort |-> 2, ioRatio |-> 1]],
     [name |-> "sizes",
      params |-> [scanPeriod |-> 1, maxIterations |-> MaxIterations,
                  deltaTAbort |-> 2, deltaRAbort |-> 2, ioRatio |-> 2]],
     [name |-> "solver",
      params |-> [scanPeriod |-> 1, maxIterations |-> MaxIterations,
                  deltaTAbort |-> 2, deltaRAbort |-> 2, ioRatio |-> 3]],
     [name |-> "rings",
      params |-> [scanPeriod |-> 1, maxIterations |-> SearchPeriod + 1,
                  deltaTAbort |-> 2, deltaRAbort |-> 2, ioRatio |-> 1]]}

SceneSweeps(name) ==
    CASE name = "faults" -> {PlainSweep(1000), PlainSweep(2000)}
      [] name = "sizes" -> {PlainSweep(1000), ThinCornerSweep, ThinSurfaceSweep}
      [] name = "solver" -> {RichSweep}
      [] name = "rings" -> {NearSweep, FarSweep}

SceneDeliveries(name) ==
    IF name = "faults" THEN {InOrder} \cup Faulty ELSE {InOrder}

SceneMatX(name) ==
    CASE name = "faults" -> {XZero}
      [] name = "rings" -> {XZero}
      [] name = "sizes" -> {XZero, XLargeR}
      [] name = "solver" -> {XZero, XSmall, XLargeR, XLargeT, XNonFinite}

SceneMatE(name) ==
    IF name = "solver" THEN {WeakLeast, WeakAll} ELSE {Regular}

\* What is observed of a tick: how its gate went ("none": no call since the
\* latest delivery), the iterations it ran, those that searched, the updates
\* it applied, the value of pointSel at each sharp and each flat query
\* point of the latest iteration, the eigenvalues matE of the degeneracy
\* analysis (<<>>: no analysis in this tick), and the updates that went
\* through matX = matP * matX2.
NoTick == [gate |-> "none", iters |-> 0, searches |-> 0, updates |-> 0,
           cornerQueries |-> <<>>, surfQueries |-> <<>>, matE |-> <<>>,
           projected |-> 0]
OpenTick == [NoTick EXCEPT !.gate = "open"]

\* The poses a host logs and the files it logs them to.  The entries of a
\* rotation are all different, and different from those of a translation.
FileNames == {"odometry.txt", "mapping.txt"}
Rotations ==
    {<<<<1, 0, 0>>, <<0, 1, 0>>, <<0, 0, 1>>>>,
     <<<<11, 12, 13>>, <<21, 22, 23>>, <<31, 32, 33>>>>}
Translations == {<<14, 24, 34>>, <<-5, 6, 7>>}
NoCall == [rot |-> <<>>, trans |-> <<>>, filename |-> ""]

----------------------------------------------------------------------------
\* LaserOdometry::LaserOdometry

Init ==
    /\ \E sc \in Scenes : scene = sc.name /\ params = sc.params
    /\ systemInited = FALSE
    /\ frameCount = 0
    /\ timeOf = [s \in Streams |-> 0]
    /\ newData = [s \in Streams |-> FALSE]
    /\ cornerPointsSharp = <<>>
    /\ cornerPointsLessSharp = <<>>
    /\ surfPointsFlat = <<>>
    /\ surfPointsLessFlat = <<>>
    /\ laserCloudFullRes = <<>>
    /\ lastCornerCloud = <<>>
    /\ lastSurfaceCloud = <<>>
    /\ lastCornerKDTree = <<>>
    /\ lastSurfaceKDTree = <<>>
    /\ imu = MkImu(0, 0, 0, 0, 0, 0, Vector3(0, 0, 0), Vector3(0, 0, 0))
    /\ transform = Twist
    /\ transformSum = TwistSum
    /\ pointSearchCornerInd1 = <<>>
    /\ pointSearchCornerInd2 = <<>>
    /\ pointSearchSurfInd1 = <<>>
    /\ pointSearchSurfInd2 = <<>>
    /\ pointSearchSurfInd3 = <<>>
    /\ pc = "idle"
    /\ iterCount = 0
    /\ isConverged = FALSE
    /\ isDegenerate = FALSE
    /\ matP = {}
    /\ matX = XZero
    /\ registeredRet = "none"
    /\ op = "construct"
    /\ processRet = "none"
    /\ returnedTrue = 0
    /\ tick = NoTick
    /\ poseFile = [f \in FileNames |-> <<>>]
    /\ poseCall = NoCall

flagVars == <<newData, timeOf>>
inputVars == <<cornerPointsSharp, cornerPointsLessSharp, surfPointsFlat,
               surfPointsLessFlat, laserCloudFullRes, imu>>
lastVars == <<lastCornerCloud, lastSurfaceCloud>>
treeVars == <<lastCornerKDTree, lastSurfaceKDTree>>
cacheVars == <<pointSearchCornerInd1, pointSearchCornerInd2,
               pointSearchSurfInd1, pointSearchSurfInd2, pointSearchSurfInd3>>
localVars == <<pc, iterCount, isConverged, isDegenerate, matP, matX>>
poseVars == <<transform, transformSum>>
coreVars == <<scene, params, systemInited, frameCount, flagVars, inputVars, lastVars,
              treeVars, cacheVars, localVars, poseVars, registeredRet,
              processRet, returnedTrue, tick, op>>
vars == <<coreVars, poseFile, poseCall>>

----------------------------------------------------------------------------
\* The host, between two calls: it delivers the streams of a sweep, each
\* with its data, its timestamp and its fresh-data flag.

Delivered(s, d, old, new) == IF s = d.skipped THEN old ELSE new

InstallSweep(sw, d) ==
    /\ pc = "idle"
    /\ newData' = [s \in Streams |-> Delivered(s, d, newData[s], TRUE)]
    /\ timeOf' = [s \in Streams |->
            Delivered(s, d, timeOf[s], sw.t + (IF s = d.late THEN d.skew ELSE 0))]
    /\ cornerPointsSharp' =
            Delivered("CornerPointsSharp", d, cornerPointsSharp, sw.CornerPointsSharp)
    /\ cornerPointsLessSharp' =
            Delivered("CornerPointsLessSharp", d, cornerPointsLessSharp,
                      sw.CornerPointsLessSharp)
    /\ surfPointsFlat' =
            Delivered("SurfPointsFlat", d, surfPointsFlat, sw.SurfPointsFlat)
    /\ surfPointsLessFlat' =
            Delivered("SurfPointsLessFlat", d, surfPointsLessFlat, sw.SurfPointsLessFlat)
    /\ laserCloudFullRes' =
            Delivered("LaserCloudFullRes", d, laserCloudFullRes, sw.LaserCloudFullRes)
    /\ imu' = Delivered("ImuTrans", d, imu, sw.ImuTrans)
    /\ processRet' = "none"
    /\ registeredRet' = "none"
    /\ tick' = NoTick
    /\ op' = "install"
    /\ UNCHANGED <<poseFile, poseCall, scene, params, systemInited, frameCount, lastVars, treeVars,
                   cacheVars, localVars, poseVars, returnedTrue>>

----------------------------------------------------------------------------
\* LaserOdometry::transformToEnd, along x.  The rotations (rotateZXY,
\* rotateYXZ) mix in y and z, which a point of the model does not carry.

\* A re-projection that keeps the relative time of the point.
TransformPointToEndKeepingTime(p, tr, im) ==
    [x |-> p.x - (RelTime(p) * tr.pos_x.v) \div 10
               + tr.pos_x.v - im.imuShiftFromStart.x,
     intensity |-> p.intensity]

TransformPointToEnd(p, tr, im) ==
    [x |-> p.x - (RelTime(p) * tr.pos_x.v) \div 10
               + tr.pos_x.v - im.imuShiftFromStart.x,
     intensity |-> IntPart(p.intensity)]

transformToEnd(cloud, tr, im) ==
    [i \in 1..Len(cloud) |-> TransformPointToEnd(cloud[i], tr, im)]

----------------------------------------------------------------------------
\* LaserOdometry::transformToStart, along x: po.x = pi.x - s * _transform.pos.x()
\* and po.intensity = pi.intensity.  process() does not call it: the two
\* calls are commented out.
transformToStart(pi, tr) ==
    [x |-> pi.x - (RelTime(pi) * tr.pos_x.v) \div 10, intensity |-> pi.intensity]

----------------------------------------------------------------------------
\* LaserOdometry::reset and LaserOdometry::hasNewData

\* A reset that forgets the IMU flag.
resetKeepingImu == newData' = [s \in Streams |-> s = "ImuTrans" /\ newData[s]]

reset == newData' = [s \in Streams |-> FALSE]

\* A gate that admits a skew of exactly the tolerance.
hasNewDataInclusive ==
    /\ \A s \in Streams : newData[s]
    /\ \A s \in Streams :
          Abs(timeOf[s] - timeOf["SurfPointsLessFlat"]) <= TimeTolerance

hasNewData ==
    /\ newData["CornerPointsSharp"] /\ newData["CornerPointsLessSharp"]
    /\ newData["SurfPointsFlat"] /\ newData["SurfPointsLessFlat"]
    /\ newData["LaserCloudFullRes"] /\ newData["ImuTrans"]
    /\ Abs(timeOf["CornerPointsSharp"] - timeOf["SurfPointsLessFlat"]) < TimeTolerance
    /\ Abs(timeOf["CornerPointsLessSharp"] - timeOf["SurfPointsLessFlat"]) < TimeTolerance
    /\ Abs(timeOf["SurfPointsFlat"] - timeOf["SurfPointsLessFlat"]) < TimeTolerance
    /\ Abs(timeOf["LaserCloudFullRes"] - timeOf["SurfPointsLessFlat"]) < TimeTolerance
    /\ Abs(timeOf["ImuTrans"] - timeOf["SurfPointsLessFlat"]) < TimeTolerance

----------------------------------------------------------------------------
\* LaserOdometry::process, up to the solver loop.

\* A gate that consumes the flags before it tests them.
ProcessNoDataResetting ==
    /\ pc = "idle"
    /\ ~hasNewData
    /\ reset
    /\ processRet' = "false"
    /\ tick' = [tick EXCEPT !.gate = "closed"]
    /\ op' = "process"
    /\ UNCHANGED <<poseFile, poseCall, scene, params, systemInited, frameCount, timeOf, inputVars,
                   lastVars, treeVars, cacheVars, localVars, poseVars,
                   registeredRet, returnedTrue>>

\* if (!hasNewData()) return false;
ProcessNoData ==
    /\ pc = "idle"
    /\ ~hasNewData
    /\ processRet' = "false"
    /\ tick' = [tick EXCEPT !.gate = "closed"]
    /\ op' = "process"
    /\ UNCHANGED <<poseFile, poseCall, scene, params, systemInited, frameCount, flagVars, inputVars,
                   lastVars, treeVars, cacheVars, localVars, poseVars,
                   registeredRet, returnedTrue>>

\* A bias with pitch and roll exchanged.
BiasedSumSwapped(ts, im) ==
    [ts EXCEPT !.rot_x = @ + im.imuRollStart, !.rot_z = @ + im.imuPitchStart]

\* _transformSum.rot_x += _imuPitchStart; _transformSum.rot_z += _imuRollStart;
BiasedSum(ts, im) ==
    [ts EXCEPT !.rot_x = @ + im.imuPitchStart, !.rot_z = @ + im.imuRollStart]

\* if (!_systemInited) { ... return false; }
ProcessInit ==
    /\ pc = "idle"
    /\ hasNewData
    /\ reset
    /\ ~systemInited
    /\ cornerPointsLessSharp' = lastCornerCloud
    /\ lastCornerCloud' = cornerPointsLessSharp
    /\ surfPointsLessFlat' = lastSurfaceCloud
    /\ lastSurfaceCloud' = surfPointsLessFlat
    /\ lastCornerKDTree' = lastCornerCloud'
    /\ lastSurfaceKDTree' = lastSurfaceCloud'
    /\ transformSum' = BiasedSum(transformSum, imu)
    /\ systemInited' = TRUE
    /\ processRet' = "false"
    /\ registeredRet' = "none"
    /\ tick' = OpenTick
    /\ op' = "process"
    /\ UNCHANGED <<poseFile, poseCall, scene, params, frameCount, timeOf, cornerPointsSharp, surfPointsFlat,
                   laserCloudFullRes, imu, cacheVars, localVars, transform,
                   returnedTrue>>

\* A prior that starts every tick from the zero transform.
ImuPriorFromZero(tr, im, prm) ==
    [c \in CompSet |->
        CASE c = "pos_x" -> Fin(0 - im.imuVeloFromStart.x * prm.scanPeriod)
          [] c = "pos_y" -> Fin(0 - im.imuVeloFromStart.y * prm.scanPeriod)
          [] c = "pos_z" -> Fin(0 - im.imuVeloFromStart.z * prm.scanPeriod)
          [] OTHER -> Fin(0)]

\* _transform.pos -= _imuVeloFromStart * _params.scanPeriod;
ImuPrior(tr, im, prm) ==
    [tr EXCEPT !.pos_x = FSub(@, Fin(im.imuVeloFromStart.x * prm.scanPeriod)),
               !.pos_y = FSub(@, Fin(im.imuVeloFromStart.y * prm.scanPeriod)),
               !.pos_z = FSub(@, Fin(im.imuVeloFromStart.z * prm.scanPeriod))]

\* A size test that lets clouds of exactly the threshold sizes through.
CanSolveAtThreshold(corner, surface) ==
    Len(corner) >= MinCornerCloud /\ Len(surface) >= MinSurfaceCloud

\* if (lastCornerCloudSize > 10 && lastSurfaceCloudSize > 100)
CanSolve(corner, surface) ==
    Len(corner) > MinCornerCloud /\ Len(surface) > MinSurfaceCloud

\* std::vector<int>::resize
Resize(v, n) == [i \in 1..n |-> IF i <= Len(v) THEN v[i] ELSE 0]

\* From reset() to the head of the solver loop.  The clouds of the model hold
\* no NaN point, so removeNaNFromPointCloud leaves them as they are.
ProcessBegin ==
    /\ pc = "idle"
    /\ hasNewData
    /\ reset
    /\ systemInited
    /\ frameCount < MaxFrames
    /\ frameCount' = frameCount + 1
    /\ transform' = ImuPrior(transform, imu, params)
    /\ isDegenerate' = FALSE
    /\ isConverged' = FALSE
    /\ matP' = {}
    /\ matX' = XZero
    /\ iterCount' = 0
    /\ IF CanSolve(lastCornerCloud, lastSurfaceCloud)
         THEN /\ pointSearchCornerInd1' = Resize(pointSearchCornerInd1, Len(cornerPointsSharp))
              /\ pointSearchCornerInd2' = Resize(pointSearchCornerInd2, Len(cornerPointsSharp))
              /\ pointSearchSurfInd1' = Resize(pointSearchSurfInd1, Len(surfPointsFlat))
              /\ pointSearchSurfInd2' = Resize(pointSearchSurfInd2, Len(surfPointsFlat))
              /\ pointSearchSurfInd3' = Resize(pointSearchSurfInd3, Len(surfPointsFlat))
              /\ pc' = "solve"
         ELSE /\ UNCHANGED cacheVars
              /\ pc' = "commit"
    /\ processRet' = "none"
    /\ registeredRet' = "none"
    /\ tick' = OpenTick
    /\ op' = "process"
    /\ UNCHANGED <<poseFile, poseCall, scene, params, systemInited, timeOf, inputVars, lastVars, treeVars,
                   transformSum, returnedTrue>>

----------------------------------------------------------------------------
\* The correspondence search of one query point (iterCount % 5 == 0).

\* points[j]; past the end of the vector it reads whatever lies there (g).
Read(cloud, j, g) == IF j >= 0 /\ j < Len(cloud) THEN cloud[j + 1] ELSE g
GarbagePoints == {[x |-> 0, intensity |-> 0], [x |-> 3, intensity |-> 300]}

\* nearestKSearch(q, 1, ...) on the cloud the tree was built over: the index
\* and squared distance of the point nearest to q, the first of equals.  A
\* tree over no point finds no neighbour.
NearestIndex(tree, q) ==
    CHOOSE j \in 1..Len(tree) :
        \A k \in 1..Len(tree) :
            \/ calcSquaredDiff(tree[j], q) < calcSquaredDiff(tree[k], q)
            \/ calcSquaredDiff(tree[j], q) = calcSquaredDiff(tree[k], q) /\ j <= k

nearestKSearch(tree, q) ==
    IF Len(tree) = 0 THEN [ind |-> -1, sqDis |-> MaxSqDis]
    ELSE CHOOSE nn \in {[ind |-> j - 1, sqDis |-> calcSquaredDiff(tree[j], q)] :
                          j \in {NearestIndex(tree, q)}} : TRUE

\* for (size_t j = closestPointInd + 1; j < n; j++)
\*   if (int(points[j].intensity) > closestPointScan + 2.5) break;
\* The indices the forward scan visits.
ForwardScan(cloud, ind, n, scan, g) ==
    {j \in (ind + 1)..(n - 1) :
        \A k \in (ind + 1)..j : Ring(Read(cloud, k, g)) <= scan + 2}

\* for (int j = closestPointInd - 1; j >= 0; j--)
\*   if (int(points[j].intensity) < closestPointScan - 2.5) break;
\* The indices the backward scan visits.
BackwardScan(cloud, ind, scan, g) ==
    {j \in 0..(ind - 1) :
        \A k \in j..(ind - 1) : Ring(Read(cloud, k, g)) >= scan - 2}

\* The forward scan runs first and upward, the backward scan second and
\* downward: the place of index j in that order.
ScanRank(ind, n, j) == IF j > ind THEN j - ind ELSE n + ind + 1 - j

\* if (pointSqDis < minPointSqDis) { minPointSqDis = pointSqDis; minPointInd = j; }
\* over the indices of C in scan order, from minPointSqDis = 25 and
\* minPointInd = -1: the nearest below 25, the first visited of equals.
MinPointInd(C, cloud, ind, n, q, g) ==
    IF \A j \in C : calcSquaredDiff(Read(cloud, j, g), q) >= MaxSqDis THEN -1
    ELSE CHOOSE j \in C :
           /\ calcSquaredDiff(Read(cloud, j, g), q) < MaxSqDis
           /\ \A k \in C :
                \/ calcSquaredDiff(Read(cloud, j, g), q)
                     < calcSquaredDiff(Read(cloud, k, g), q)
                \/ /\ calcSquaredDiff(Read(cloud, j, g), q)
                        = calcSquaredDiff(Read(cloud, k, g), q)
                   /\ ScanRank(ind, n, j) <= ScanRank(ind, n, k)

\* The corner search after nearestKSearch has answered nn: the second point
\* on a ring above the closest point's (forward) or below it (backward).
CornerSearch(cloud, nn, n, q, g) ==
    IF nn.sqDis < MaxSqDis
      THEN [ind1 |-> nn.ind,
            ind2 |-> MinPointInd(
                {j \in ForwardScan(cloud, nn.ind, n, Ring(Read(cloud, nn.ind, g)), g) :
                    Ring(Read(cloud, j, g)) > Ring(Read(cloud, nn.ind, g))}
                \cup
                {j \in BackwardScan(cloud, nn.ind, Ring(Read(cloud, nn.ind, g)), g) :
                    Ring(Read(cloud, j, g)) < Ring(Read(cloud, nn.ind, g))},
                cloud, nn.ind, n, q, g),
            ind3 |-> -1]
      ELSE [ind1 |-> -1, ind2 |-> -1, ind3 |-> -1]

\* A surface search whose backward scan sorts its points the other way.
SurfSearchBackwardSwapped(cloud, nn, n, q, g) ==
    IF nn.sqDis < MaxSqDis
      THEN [ind1 |-> nn.ind,
            ind2 |-> MinPointInd(
                {j \in ForwardScan(cloud, nn.ind, n, Ring(Read(cloud, nn.ind, g)), g) :
                    Ring(Read(cloud, j, g)) <= Ring(Read(cloud, nn.ind, g))}
                \cup
                {j \in BackwardScan(cloud, nn.ind, Ring(Read(cloud, nn.ind, g)), g) :
                    Ring(Read(cloud, j, g)) < Ring(Read(cloud, nn.ind, g))},
                cloud, nn.ind, n, q, g),
            ind3 |-> MinPointInd(
                {j \in ForwardScan(cloud, nn.ind, n, Ring(Read(cloud, nn.ind, g)), g) :
                    Ring(Read(cloud, j, g)) > Ring(Read(cloud, nn.ind, g))}
                \cup
                {j \in BackwardScan(cloud, nn.ind, Ring(Read(cloud, nn.ind, g)), g) :
                    Ring(Read(cloud, j, g)) >= Ring(Read(cloud, nn.ind, g))},
                cloud, nn.ind, n, q, g)]
      ELSE [ind1 |-> -1, ind2 |-> -1, ind3 |-> -1]

\* The surface search after nearestKSearch has answered nn: the second point
\* among those on a ring <= the closest point's (forward) or >= it
\* (backward), the third among the others.
SurfSearch(cloud, nn, n, q, g) ==
    IF nn.sqDis < MaxSqDis
      THEN [ind1 |-> nn.ind,
            ind2 |-> MinPointInd(
                {j \in ForwardScan(cloud, nn.ind, n, Ring(Read(cloud, nn.ind, g)), g) :
                    Ring(Read(cloud, j, g)) <= Ring(Read(cloud, nn.ind, g))}
                \cup
                {j \in BackwardScan(cloud, nn.ind, Ring(Read(cloud, nn.ind, g)), g) :
                    Ring(Read(cloud, j, g)) >= Ring(Read(cloud, nn.ind, g))},
                cloud, nn.ind, n, q, g),
            ind3 |-> MinPointInd(
                {j \in ForwardScan(cloud, nn.ind, n, Ring(Read(cloud, nn.ind, g)), g) :
                    Ring(Read(cloud, j, g)) > Ring(Read(cloud, nn.ind, g))}
                \cup
                {j \in BackwardScan(cloud, nn.ind, Ring(Read(cloud, nn.ind, g)), g) :
                    Ring(Read(cloud, j, g)) < Ring(Read(cloud, nn.ind, g))},
                cloud, nn.ind, n, q, g)]
      ELSE [ind1 |-> -1, ind2 |-> -1, ind3 |-> -1]

----------------------------------------------------------------------------
\* One iteration of the solver loop.

\* A loop that runs one iteration more.
LoopGuardInclusive(i, prm) == i <= prm.maxIterations

\* iterCount < _params.maxIterations
LoopGuard(i, prm) == i < prm.maxIterations

\* for (int i = 5; i >= 0; i--) if (matE(0, i) < eignThre[i]) { zero row i of
\* matV2; isDegenerate = true; } else break;  The rows it zeroes, from row i.
RECURSIVE ZeroedRows(_, _)
ZeroedRows(matE, i) ==
    IF i < 0 THEN {}
    ELSE IF matE[i + 1] < EignThre THEN {i} \cup ZeroedRows(matE, i - 1)
    ELSE {}

\* matX = matP * matX2 with matP = matV.inverse() * matV2, for eigenvectors
\* along the axes (matV the identity): the zeroed rows give zero, and a
\* non-finite entry of matX2 makes every product non-finite.
Project(rows, matX2) ==
    IF \E c \in CompSet : ~matX2[c].fin
      THEN [c \in CompSet |-> NonFinite]
      ELSE [c \in CompSet |->
              IF \E k \in 1..6 : Comps[k] = c /\ (k - 1) \in rows
                THEN Fin(0) ELSE matX2[c]]

\* An update that keeps what the addition gives.
UpdateComponentUnchecked(t, dx) == FAdd(t, dx)

\* _transform.c += matX(k, 0); if (!pcl_isfinite(_transform.c)) _transform.c = 0;
UpdateComponent(t, dx) ==
    LET sum == FAdd(t, dx) IN IF pcl_isfinite(sum) THEN sum ELSE Fin(0)

ApplyUpdate(tr, dX) == [c \in CompSet |-> UpdateComponent(tr[c], dX[c])]

\* sqrt(pow(a, 2) + pow(b, 2) + pow(c, 2)) < abort, on the squares
NormBelow(a, b, c, abort) ==
    /\ a.fin /\ b.fin /\ c.fin
    /\ abort > 0
    /\ a.v * a.v + b.v * b.v + c.v * c.v < abort * abort

\* deltaR < _params.deltaRAbort && deltaT < _params.deltaTAbort
Converged(dX, prm) ==
    /\ NormBelow(dX.rot_x, dX.rot_y, dX.rot_z, prm.deltaRAbort)
    /\ NormBelow(dX.pos_x, dX.pos_y, dX.pos_z, prm.deltaTAbort)

InRange(tr) == \A c \in CompSet : tr[c].fin => Abs(tr[c].v) <= MaxCoord

Candidates(ind) == Cardinality({i \in 1..Len(ind) : ind[i] >= 0})
Candidates2(ind2, ind3) ==
    Cardinality({i \in 1..Len(ind2) : ind2[i] >= 0 /\ ind3[i] >= 0})

\* A loop that searches in every iteration.
SearchesEveryIteration(i) == TRUE

\* if (iterCount % 5 == 0)
Searches(i) == i % SearchPeriod = 0

\* No search, no neighbor.
NoNeighbor == [ind |-> -1, sqDis |-> MaxSqDis]

\* The first half of an iteration: for every query point, the search of its
\* correspondences where the iteration searches, and the residuals.
FindCorrespondences ==
    /\ pc = "solve"
    /\ LoopGuard(iterCount, params)
    /\ \E search \in {Searches(iterCount)} :
       \* transformToStart is commented out: pointSel is as constructed
       \E pointSel \in {PointXYZI} :
       \E cornerNN \in {IF search THEN nearestKSearch(lastCornerKDTree, pointSel)
                        ELSE NoNeighbor} :
       \E surfNN \in {IF search THEN nearestKSearch(lastSurfaceKDTree, pointSel)
                      ELSE NoNeighbor} :
       \E g \in GarbagePoints :
       \E c \in {CornerSearch(lastCornerCloud, cornerNN,
                              Len(cornerPointsSharp), pointSel, g)} :
       \E f \in {SurfSearch(lastSurfaceCloud, surfNN,
                            Len(surfPointsFlat), pointSel, g)} :
           /\ pointSearchCornerInd1' =
                IF search THEN [i \in 1..Len(cornerPointsSharp) |-> c.ind1]
                ELSE pointSearchCornerInd1
           /\ pointSearchCornerInd2' =
                IF search THEN [i \in 1..Len(cornerPointsSharp) |-> c.ind2]
                ELSE pointSearchCornerInd2
           /\ pointSearchSurfInd1' =
                IF search THEN [i \in 1..Len(surfPointsFlat) |-> f.ind1]
                ELSE pointSearchSurfInd1
           /\ pointSearchSurfInd2' =
                IF search THEN [i \in 1..Len(surfPointsFlat) |-> f.ind2]
                ELSE pointSearchSurfInd2
           /\ pointSearchSurfInd3' =
                IF search THEN [i \in 1..Len(surfPointsFlat) |-> f.ind3]
                ELSE pointSearchSurfInd3
           /\ tick' = [tick EXCEPT
                          !.searches = @ + (IF search THEN 1 ELSE 0),
                          !.cornerQueries = [i \in 1..Len(cornerPointsSharp) |-> pointSel],
                          !.surfQueries = [i \in 1..Len(surfPointsFlat) |-> pointSel]]
    /\ pc' = "update"
    /\ UNCHANGED <<poseFile, poseCall, scene, params, systemInited, frameCount, flagVars, inputVars,
                   lastVars, treeVars, iterCount, isConverged, isDegenerate, matP,
                   matX, poseVars, registeredRet, processRet, returnedTrue, op>>

\* A loop that analyses the degeneracy in every iteration.
AnalysesEveryIteration(i) == TRUE

\* if (iterCount == 0)
Analyses(i) == i = 0

\* The second half: too few correspondences and the iteration is skipped,
\* else the solve, the update of the incremental transform and the test of
\* convergence.
SolveAndUpdate ==
    /\ pc = "update"
    /\ iterCount' = iterCount + 1
    \* s > 0.1 && ld2 != 0 (pd2 != 0) accepts some of the candidates
    /\ \E pointSelNum \in 0..(Candidates(pointSearchCornerInd2)
                               + Candidates2(pointSearchSurfInd2, pointSearchSurfInd3)) :
         IF pointSelNum < MinPointSel
           THEN \* continue
                /\ tick' = [tick EXCEPT !.iters = @ + 1]
                /\ pc' = "solve"
                /\ UNCHANGED <<transform, isDegenerate, matP, matX, isConverged>>
           ELSE \E matX2 \in SceneMatX(scene), matE \in SceneMatE(scene) :
                \E rows \in {IF Analyses(iterCount) THEN ZeroedRows(matE, 5) ELSE matP} :
                \E degenerate \in {IF Analyses(iterCount) THEN rows # {}
                                    ELSE isDegenerate} :
                \E x \in {IF degenerate THEN Project(rows, matX2) ELSE matX2} :
                \E updated \in {ApplyUpdate(transform, x)} :
                    /\ InRange(updated)
                    /\ matX' = x
                    /\ transform' = updated
                    /\ isDegenerate' = degenerate
                    /\ matP' = rows
                    /\ isConverged' = Converged(x, params)
                    /\ pc' = IF Converged(x, params) THEN "commit" ELSE "solve"
                    /\ tick' = [tick EXCEPT !.iters = @ + 1, !.updates = @ + 1,
                                            !.matE = IF Analyses(iterCount) THEN matE ELSE @,
                                            !.projected = @ + (IF degenerate THEN 1 ELSE 0)]
    /\ UNCHANGED <<poseFile, poseCall, scene, params, systemInited, frameCount, flagVars, inputVars,
                   lastVars, treeVars, cacheVars, transformSum, registeredRet,
                   processRet, returnedTrue, op>>

\* The loop ends without convergence ("Optimization Incomplete").
LoopExit ==
    /\ pc = "solve"
    /\ ~LoopGuard(iterCount, params)
    /\ pc' = "commit"
    /\ UNCHANGED <<poseFile, poseCall, scene, params, systemInited, frameCount, flagVars, inputVars,
                   lastVars, treeVars, cacheVars, iterCount, isConverged,
                   isDegenerate, matP, matX, poseVars, registeredRet, processRet,
                   returnedTrue, tick, op>>

----------------------------------------------------------------------------
\* LaserOdometry::process, after the solver loop.

\* accumulateRotation, rotateZXY, pluginIMURotation: one more incremental
\* transform composed into the accumulated pose.
AccumulatePose(ts, tr, im) == [ts EXCEPT !.composed = @ + 1]

\* The neighbor index after the swap: the calls of setInputCloud are
\* commented out, so it stays the index it was.
TreeAfterSwap(tree, cloud) == tree

Commit ==
    /\ pc = "commit"
    /\ transformSum' = AccumulatePose(transformSum, transform, imu)
    /\ lastCornerCloud' = transformToEnd(cornerPointsLessSharp, transform, imu)
    /\ cornerPointsLessSharp' = lastCornerCloud
    /\ lastSurfaceCloud' = transformToEnd(surfPointsLessFlat, transform, imu)
    /\ surfPointsLessFlat' = lastSurfaceCloud
    /\ lastCornerKDTree' = TreeAfterSwap(lastCornerKDTree, lastCornerCloud')
    /\ lastSurfaceKDTree' = TreeAfterSwap(lastSurfaceKDTree, lastSurfaceCloud')
    /\ pc' = "idle"
    /\ iterCount' = 0
    /\ isConverged' = FALSE
    /\ isDegenerate' = FALSE
    /\ matP' = {}
    /\ matX' = XZero
    /\ processRet' = "true"
    /\ returnedTrue' = returnedTrue + 1
    /\ UNCHANGED <<poseFile, poseCall, scene, params, systemInited, frameCount, flagVars, cornerPointsSharp,
                   surfPointsFlat, laserCloudFullRes, imu, cacheVars, transform,
                   registeredRet, tick, op>>

----------------------------------------------------------------------------
\* LaserOdometry::generateRegisteredCloud.  The host calls it at most once
\* between two other operations.

\* A cadence that exports on the multiples of ioRatio.
ExportDueOnMultiples(prm, count) == prm.ioRatio < 2 \/ count % prm.ioRatio = 0

\* _params.ioRatio < 2 || _frameCount % _params.ioRatio == 1
ExportDue(prm, count) == prm.ioRatio < 2 \/ count % prm.ioRatio = 1

CloudInRange(cloud) == \A i \in 1..Len(cloud) : Abs(cloud[i].x) <= MaxCoord

generateRegisteredCloud ==
    /\ pc = "idle"
    /\ registeredRet = "none"
    /\ IF ExportDue(params, frameCount)
         THEN /\ laserCloudFullRes' = transformToEnd(laserCloudFullRes, transform, imu)
              /\ CloudInRange(laserCloudFullRes')
              /\ registeredRet' = "true"
         ELSE /\ UNCHANGED laserCloudFullRes
              /\ registeredRet' = "false"
    /\ op' = "generate"
    /\ UNCHANGED <<poseFile, poseCall, scene, params, systemInited, frameCount, flagVars, cornerPointsSharp,
                   cornerPointsLessSharp, surfPointsFlat, surfPointsLessFlat, imu,
                   lastVars, treeVars, cacheVars, localVars, poseVars,
                   processRet, returnedTrue, tick>>

----------------------------------------------------------------------------
\* savePoseToFile (common.h).  A file is the sequence of the tokens written
\* to it: numbers as operator<< prints them, " " and "\n".

\* std::ostream << double, for the whole numbers of the model
Format(v) == ToString(v)

\* The line with the three translation entries after the nine of rotation.
PoseLineRotationFirst(rot, trans) ==
    <<Format(rot[1][1]), " ", Format(rot[1][2]), " ", Format(rot[1][3]), " ",
      Format(rot[2][1]), " ", Format(rot[2][2]), " ", Format(rot[2][3]), " ",
      Format(rot[3][1]), " ", Format(rot[3][2]), " ", Format(rot[3][3]), " ",
      Format(trans[1]), " ", Format(trans[2]), " ", Format(trans[3]), "\n">>

\* myfile << rot(0,0) << " " << rot(0,1) << " " << rot(0,2) << " " << trans(0)
\*        << " " << rot(1,0) << ... << trans(1) << " " << rot(2,0) << ...
\*        << trans(2) << "\n";
PoseLine(rot, trans) ==
    <<Format(rot[1][1]), " ", Format(rot[1][2]), " ", Format(rot[1][3]), " ",
      Format(trans[1]), " ",
      Format(rot[2][1]), " ", Format(rot[2][2]), " ", Format(rot[2][3]), " ",
      Format(trans[2]), " ",
      Format(rot[3][1]), " ", Format(rot[3][2]), " ", Format(rot[3][3]), " ",
      Format(trans[3]), "\n">>

\* The lines of a file: its newline tokens.
Lines(content) == Cardinality({i \in 1..Len(content) : content[i] = "\n"})

\* myfile.open(filename, std::ios_base::app); myfile << ...; myfile.close();
savePoseToFile(rot, trans, filename) ==
    /\ Lines(poseFile[filename]) < MaxLines
    /\ poseFile' = [poseFile EXCEPT ![filename] = @ \o PoseLine(rot, trans)]
    /\ poseCall' = [rot |-> rot, trans |-> trans, filename |-> filename]
    /\ UNCHANGED coreVars

\* A host that logs poses.
SaveNext ==
    \E rot \in Rotations, trans \in Translations, filename \in FileNames :
        savePoseToFile(rot, trans, filename)

SaveInit == Init /\ scene = "faults"

SaveSpec == SaveInit /\ [][SaveNext]_vars

----------------------------------------------------------------------------

Next ==
    \/ \E sw \in SceneSweeps(scene), d \in SceneDeliveries(scene) : InstallSweep(sw, d)
    \/ ProcessNoData
    \/ ProcessInit
    \/ ProcessBegin
    \/ FindCorrespondences
    \/ SolveAndUpdate
    \/ LoopExit
    \/ Commit
    \/ generateRegisteredCloud

Spec == Init /\ [][Next]_vars

\* A call of process() runs to its return.
FairSpec == Spec /\ WF_vars(FindCorrespondences \/ SolveAndUpdate \/ LoopExit \/ Commit)

----------------------------------------------------------------------------
\* Properties of the input gate and of the initialization tick.

\* The gate as the specification words it: all six fresh-data flags are set
\* and every stream's timestamp is less than 5 ms from the less-flat surface
\* stream's.
AllFresh == \A s \in Streams : newData[s]
Aligned == \A s \in Streams : Abs(timeOf[s] - timeOf["SurfPointsLessFlat"]) < 5
GateOpen == AllFresh /\ Aligned

\* A step that is the entry of a call of process().
ProcessCall == pc = "idle" /\ op' = "process"

\* C1: a call of process() proceeds past the input gate (it consumes the
\* flags and initializes or starts a tick) if and only if all six flags are
\* set and each of the five other timestamps differs from the less-flat
\* surface timestamp by strictly less than 5 ms; otherwise it returns false.
C1_InputGate ==
    [][ProcessCall =>
         IF GateOpen
           THEN /\ tick'.gate = "open"
                /\ \A s \in Streams : ~newData'[s]
                /\ systemInited'
                /\ systemInited => frameCount' = frameCount + 1
           ELSE /\ tick'.gate = "closed"
                /\ processRet' = "false"]_vars

\* A call refused on the timestamps alone: every flag set, the IMU stream a
\* whole second off and the other streams on time.
C1_Witness ==
    /\ op = "process" /\ tick.gate = "closed" /\ processRet = "false"
    /\ AllFresh
    /\ Abs(timeOf["ImuTrans"] - timeOf["SurfPointsLessFlat"]) = 1000
    /\ \A s \in Streams \ {"ImuTrans"} : timeOf[s] = timeOf["SurfPointsLessFlat"]

\* C2: the first call that passes the gate seeds the previous-sweep clouds
\* with the current less-sharp corner and less-flat surface clouds, builds
\* both neighbor indices over them, adds the IMU start pitch to the
\* accumulated pose's X rotation and the start roll to its Z rotation, marks
\* the system initialized and returns false without running the solver.
C2_InitTick ==
    [][(ProcessCall /\ GateOpen /\ ~systemInited) =>
         /\ lastCornerCloud' = cornerPointsLessSharp
         /\ lastSurfaceCloud' = surfPointsLessFlat
         /\ lastCornerKDTree' = cornerPointsLessSharp
         /\ lastSurfaceKDTree' = surfPointsLessFlat
         /\ transformSum'.rot_x = transformSum.rot_x + imu.imuPitchStart
         /\ transformSum'.rot_z = transformSum.rot_z + imu.imuRollStart
         /\ \A f \in {"rot_y", "pos_x", "pos_y", "pos_z", "composed"} :
              transformSum'[f] = transformSum[f]
         /\ systemInited'
         /\ processRet' = "false"
         /\ pc' = "idle" /\ tick'.iters = 0 /\ tick'.updates = 0
         /\ UNCHANGED <<transform, frameCount>>]_vars

\* The state the initialization tick leaves, with a pitch unlike the roll.
C2_Witness ==
    /\ op = "process" /\ tick.gate = "open" /\ processRet = "false"
    /\ systemInited /\ frameCount = 0
    /\ Len(lastCornerCloud) > 0 /\ lastCornerKDTree = lastCornerCloud
    /\ transformSum.rot_x = imu.imuPitchStart
    /\ transformSum.rot_z = imu.imuRollStart
    /\ transformSum.rot_x # transformSum.rot_z

\* C3: after a call that passes the gate all six flags are false, its return
\* value whatever, so a second call with no input installed in between
\* returns false.
C3_FlagsConsumed ==
    /\ [](tick.gate = "open" => (\A s \in Streams : ~newData[s]) /\ ~hasNewData)
    /\ [][(ProcessCall /\ tick.gate = "open") =>
            processRet' = "false" /\ tick'.gate = "closed"]_vars

\* A call that passed the gate and returned true.
C3_Witness ==
    /\ pc = "idle" /\ op = "process" /\ tick.gate = "open" /\ processRet = "true"
    /\ \A s \in Streams : ~newData[s]

\* C4: a call whose gate is closed changes nothing: the flags, the
\* initialization flag, the frame counter, the incremental transform, the
\* accumulated pose, the clouds, the indices and the caches are as before.
C4_ClosedGateNoChange ==
    [][(ProcessCall /\ ~GateOpen) =>
         /\ processRet' = "false"
         /\ UNCHANGED <<newData, timeOf, systemInited, frameCount, transform,
                        transformSum, inputVars, lastVars, treeVars, cacheVars,
                        localVars>>]_vars

\* A refused call with some, not all, of the flags still set.
C4_Witness ==
    /\ op = "process" /\ tick.gate = "closed" /\ processRet = "false"
    /\ \E s \in Streams : newData[s]
    /\ \E s \in Streams : ~newData[s]

----------------------------------------------------------------------------
\* Properties of a tick's entry and of its commit.

\* The entry of a non-initialization tick.
TickEntry == ProcessCall /\ GateOpen /\ systemInited

\* -imuVeloFromStart * scanPeriod, with no rotation
VelocityPrior ==
    MkX(Fin(0), Fin(0), Fin(0),
        Fin(0 - imu.imuVeloFromStart.x * params.scanPeriod),
        Fin(0 - imu.imuVeloFromStart.y * params.scanPeriod),
        Fin(0 - imu.imuVeloFromStart.z * params.scanPeriod))

C6_IndexRebuilt ==
    (pc = "idle" /\ processRet = "true") =>
        /\ lastCornerKDTree = lastCornerCloud
        /\ lastSurfaceKDTree = lastSurfaceCloud

\* The previous-sweep clouds are too small to solve against.
SmallPrevious == Len(lastCornerCloud) <= 10 \/ Len(lastSurfaceCloud) <= 100

\* C7: with a previous-sweep corner cloud of at most 10 points or a
\* previous-sweep surface cloud of at most 100 points, a non-initialization
\* tick runs no solver iteration and applies no solver update, and still
\* increments the frame count, composes the incremental transform into the
\* accumulated pose, swaps the current less-sharp and less-flat clouds into
\* the previous-sweep slots and returns true.
C7_SmallCloudsSkipSolver ==
    [][/\ (TickEntry /\ SmallPrevious) =>
            /\ pc' = "commit"
            /\ frameCount' = frameCount + 1
            /\ tick'.iters = 0 /\ tick'.searches = 0 /\ tick'.updates = 0
            /\ transform'.rot_x = transform.rot_x
            /\ transform'.rot_y = transform.rot_y
            /\ transform'.rot_z = transform.rot_z
            /\ UNCHANGED cacheVars
       /\ (pc = "commit" /\ SmallPrevious) =>
            /\ tick.iters = 0 /\ tick.searches = 0 /\ tick.updates = 0
            /\ pc' = "idle"
            /\ processRet' = "true"
            /\ returnedTrue' = returnedTrue + 1
            /\ transformSum'.composed = transformSum.composed + 1
            /\ lastCornerCloud' = transformToEnd(cornerPointsLessSharp, transform, imu)
            /\ lastSurfaceCloud' = transformToEnd(surfPointsLessFlat, transform, imu)
            /\ cornerPointsLessSharp' = lastCornerCloud
            /\ surfPointsLessFlat' = lastSurfaceCloud
            /\ UNCHANGED <<transform, frameCount>>]_vars

\* A tick that returned true over a previous-sweep surface cloud of exactly
\* 100 points and a corner cloud of more than 10.
C7_Witness ==
    /\ pc = "idle" /\ op = "process" /\ processRet = "true"
    /\ tick.gate = "open" /\ tick.iters = 0 /\ tick.updates = 0
    /\ frameCount >= 1 /\ returnedTrue = frameCount
    /\ Len(surfPointsLessFlat) = 100 /\ Len(cornerPointsLessSharp) > 10

----------------------------------------------------------------------------
\* Properties of the export cadence and of the solver loop.

\* C8: generateRegisteredCloud() exports and returns true exactly when
\* ioRatio is below 2 or frameCount modulo ioRatio is 1, frameCount being
\* the number of calls of process() that returned true; with an ioRatio of
\* 3 it exports after the 1st, the 4th, the 7th such call.
C8_ExportCadence ==
    op = "generate" =>
        /\ frameCount = returnedTrue
        /\ registeredRet = "true" <=>
             (params.ioRatio < 2 \/ returnedTrue % params.ioRatio = 1)
        /\ params.ioRatio = 3 =>
             (registeredRet = "true" <=> returnedTrue \in {1, 4, 7})

\* The export after the 4th call that returned true, with an ioRatio of 3.
C8_Witness ==
    /\ op = "generate" /\ registeredRet = "true"
    /\ params.ioRatio = 3 /\ returnedTrue = 4

\* The update last applied is below both convergence thresholds.
SumSq(a, b, c) == a.v * a.v + b.v * b.v + c.v * c.v
ConvergedUpdate ==
    /\ \A c \in CompSet : matX[c].fin
    /\ SumSq(matX.rot_x, matX.rot_y, matX.rot_z)
         < params.deltaRAbort * params.deltaRAbort
    /\ SumSq(matX.pos_x, matX.pos_y, matX.pos_z)
         < params.deltaTAbort * params.deltaTAbort

\* C9: the solver loop runs at most maxIterations iterations, stays in the
\* loop only while no applied update was converged, and whether or not it
\* converged the tick goes on to accumulate the pose, swap the buffers and
\* return true.
C9_SolverTerminates ==
    /\ [](tick.iters <= params.maxIterations)
    /\ []((pc = "solve" /\ tick.updates > 0) => ~ConvergedUpdate)
    /\ []((pc = "commit" /\ tick.updates > 0 /\ tick.iters < params.maxIterations)
            => ConvergedUpdate)
    /\ [][pc = "commit" =>
            /\ pc' = "idle"
            /\ processRet' = "true"
            /\ transformSum'.composed = transformSum.composed + 1
            /\ cornerPointsLessSharp' = lastCornerCloud
            /\ surfPointsLessFlat' = lastSurfaceCloud]_vars
    /\ (pc = "solve") ~> (pc = "idle" /\ processRet = "true")

\* A loop that used up its iterations, applied updates and did not converge.
C9_Witness ==
    /\ pc = "commit" /\ ~isConverged /\ ~ConvergedUpdate
    /\ tick.iters = params.maxIterations /\ params.maxIterations >= 2
    /\ tick.updates >= 1

\* C10: after every iteration that applies an update the six components of
\* the incremental transform are finite: one that came out non-finite is
\* zero, the others hold their updated values, and the tick goes on.
C10_NonFiniteZeroed ==
    /\ [](\A c \in CompSet : transform[c].fin)
    /\ [][tick'.updates = tick.updates + 1 =>
            /\ \A c \in CompSet :
                 transform'[c] = IF matX'[c].fin
                                   THEN Fin(transform[c].v + matX'[c].v)
                                   ELSE Fin(0)
            /\ pc' \in {"solve", "commit"}]_vars

\* An update with non-finite entries: those components are zero, another
\* component holds its updated value.
C10_Witness ==
    /\ pc # "idle" /\ tick.updates >= 1
    /\ ~matX.rot_x.fin /\ transform.rot_x = Fin(0)
    /\ ~matX.pos_y.fin /\ transform.pos_y = Fin(0)
    /\ matX.rot_y = Fin(1) /\ transform.rot_y # Fin(0)

----------------------------------------------------------------------------
\* Properties of the pose log.

\* The tokens of the twelve numbers a call was given, in the order named.
RotationRowMajor(c) ==
    <<ToString(c.rot[1][1]), ToString(c.rot[1][2]), ToString(c.rot[1][3]),
      ToString(c.rot[2][1]), ToString(c.rot[2][2]), ToString(c.rot[2][3]),
      ToString(c.rot[3][1]), ToString(c.rot[3][2]), ToString(c.rot[3][3])>>
TranslationEntries(c) ==
    <<ToString(c.trans[1]), ToString(c.trans[2]), ToString(c.trans[3])>>
PoseRowMajor(c) ==
    <<ToString(c.rot[1][1]), ToString(c.rot[1][2]), ToString(c.rot[1][3]),
      ToString(c.trans[1]),
      ToString(c.rot[2][1]), ToString(c.rot[2][2]), ToString(c.rot[2][3]),
      ToString(c.trans[2]),
      ToString(c.rot[3][1]), ToString(c.rot[3][2]), ToString(c.rot[3][3]),
      ToString(c.trans[3])>>

\* What a call appends is one line of twelve numbers, nums, each followed by
\* a space but the last, which a newline follows; what the file held stays.
AppendsLine(nums) ==
    LET old == poseFile[poseCall'.filename]
        new == poseFile'[poseCall'.filename]
    IN /\ Len(new) = Len(old) + 24
       /\ SubSeq(new, 1, Len(old)) = old
       /\ \A k \in 1..12 : new[Len(old) + 2 * k - 1] = nums[k]
       /\ \A k \in 1..11 : new[Len(old) + 2 * k] = " "
       /\ new[Len(old) + 24] = "\n"
       /\ \A f \in FileNames \ {poseCall'.filename} : poseFile'[f] = poseFile[f]

\* C11, as the specification words it: savePoseToFile appends one
\* space-separated, newline-terminated line of twelve numbers, the nine
\* rotation entries row-major and then the three translation entries, and
\* leaves the earlier content of the file as it was.
C11_RotationThenTranslation ==
    poseCall # NoCall =>
        LET content == poseFile[poseCall.filename]
        IN [k \in 1..12 |-> content[Len(content) - 25 + 2 * k]]
             = RotationRowMajor(poseCall) \o TranslationEntries(poseCall)

\* C11, as the code has it: the twelve numbers are the 3x4 matrix [rot | trans]
\* row-major, each row of the rotation followed by the translation entry of
\* that row.
C11_PoseRowMajor ==
    [][AppendsLine(PoseRowMajor(poseCall'))]_vars

\* A second line appended to a file, of a rotation and a translation that
\* the two orders tell apart.
C11_Witness ==
    /\ poseCall.filename = "odometry.txt"
    /\ Lines(poseFile["odometry.txt"]) = 2
    /\ poseCall.rot[1] = <<11, 12, 13>> /\ poseCall.trans = <<14, 24, 34>>
    /\ SubSeq(poseFile["odometry.txt"], 25, 31) = <<"11", " ", "12", " ", "13", " ", "14">>

----------------------------------------------------------------------------
\* Properties of the correspondence search.

\* C12: the position at which a sharp or a flat query point is searched and
\* its residual evaluated is that point re-projected to the start of the
\* sweep by transformToStart, so two query points with different
\* coordinates are searched at different positions.
C12_QueryAtStartOfSweep ==
    pc = "update" =>
        /\ \A i \in 1..Len(cornerPointsSharp) :
             tick.cornerQueries[i].x = transformToStart(cornerPointsSharp[i], transform).x
        /\ \A i \in 1..Len(surfPointsFlat) :
             tick.surfQueries[i].x = transformToStart(surfPointsFlat[i], transform).x
        /\ \A i, j \in 1..Len(cornerPointsSharp) :
             cornerPointsSharp[i].x # cornerPointsSharp[j].x
                => tick.cornerQueries[i].x # tick.cornerQueries[j].x

----------------------------------------------------------------------------
\* Properties of the degeneracy analysis.

\* C13: the problem is reported degenerate exactly when at least one of the
\* six eigenvalues is below 10; in particular eigenvalues whose smallest is
\* below 10 and whose largest is at least 10 are reported degenerate.
C13_DegenerateIffWeakEigenvalue ==
    (pc # "idle" /\ tick.matE # <<>>) =>
        (isDegenerate <=> \E k \in 1..6 : tick.matE[k] < EignThre)

----------------------------------------------------------------------------
\* Properties of the surface correspondences.

\* Index j names a point of the cloud.
InCloud(cloud, j) == j >= 0 /\ j < Len(cloud)

\* The caches hold what a search of this tick stored, over the previous-sweep
\* clouds as they still are.
Searched == pc = "update" /\ tick.searches > 0

RingAt(cloud, j) == Ring(cloud[j + 1])

C14_ForwardCase ==
    /\ Searched
    /\ \E i \in 1..Len(pointSearchSurfInd1) :
         /\ InCloud(lastSurfaceCloud, pointSearchSurfInd1[i])
         /\ InCloud(lastSurfaceCloud, pointSearchSurfInd2[i])
         /\ InCloud(lastSurfaceCloud, pointSearchSurfInd3[i])
         /\ pointSearchSurfInd3[i] > pointSearchSurfInd1[i]
         /\ pointSearchSurfInd2[i] < pointSearchSurfInd1[i]

----------------------------------------------------------------------------
\* Properties of the correspondence caches.

\* The first half of an iteration, and the second.
SearchStep == pc = "solve" /\ pc' = "update"
SolveStep == pc = "update" /\ pc' # "update"

\* C15: within a tick's solver loop the correspondence caches are rewritten
\* exactly in the iterations whose index is a multiple of 5; every other
\* iteration leaves them as the latest such iteration stored them, and no
\* solve changes them.
C15_SearchEveryFifth ==
    [][/\ SearchStep =>
            IF iterCount % 5 = 0
              THEN /\ tick'.searches = tick.searches + 1
                   /\ Len(pointSearchCornerInd1') = Len(cornerPointsSharp)
                   /\ Len(pointSearchSurfInd1') = Len(surfPointsFlat)
              ELSE /\ tick'.searches = tick.searches
                   /\ UNCHANGED cacheVars
       /\ SolveStep => UNCHANGED cacheVars]_vars

\* The sixth iteration of a tick has searched again, after four that did not.
C15_Witness ==
    /\ pc = "update"
    /\ iterCount = 5
    /\ tick.searches = 2
    /\ tick.iters = 5
    /\ Len(pointSearchSurfInd3) = Len(surfPointsFlat)

----------------------------------------------------------------------------
\* Properties of the previous-sweep clouds.

\* Every point of the cloud carries a whole ring index, no relative time.
Stripped(cloud) ==
    \A i \in 1..Len(cloud) : cloud[i].intensity = Ring(cloud[i]) * 100

\* C16: once process() has returned true, every point of the previous-sweep
\* corner cloud and of the previous-sweep surface cloud has a channel with
\* zero fractional part, equal to its integer scan-ring index.
C16_PreviousCloudsStripped ==
    returnedTrue > 0 => Stripped(lastCornerCloud) /\ Stripped(lastSurfaceCloud)

\* The first true return: the clouds swapped out are those of the
\* initialization tick and still carry relative times, the clouds swapped
\* in carry none.
C16_Witness ==
    /\ processRet = "true"
    /\ returnedTrue = 1
    /\ Len(lastCornerCloud) > MinCornerCloud
    /\ Len(lastSurfaceCloud) > MinSurfaceCloud
    /\ ~Stripped(cornerPointsLessSharp)
    /\ ~Stripped(surfPointsLessFlat)
    /\ Stripped(lastCornerCloud)
    /\ Stripped(lastSurfaceCloud)
    /\ \E i \in 1..Len(lastCornerCloud) : Ring(lastCornerCloud[i]) > 0

----------------------------------------------------------------------------
\* Properties of the indices into the previous-sweep clouds.

\* C17: every index used to read a point of a previous-sweep cloud is
\* within the bounds of that cloud as it is at that moment: the nearest
\* neighbor's index, read at the head of the scans and stored as the first
\* correspondence, and every stored index that the residuals dereference.
C17_IndicesInBounds ==
    Searched =>
        /\ \A i \in 1..Len(pointSearchCornerInd1) :
             /\ pointSearchCornerInd1[i] >= 0
                  => InCloud(lastCornerCloud, pointSearchCornerInd1[i])
             /\ pointSearchCornerInd2[i] >= 0
                  => InCloud(lastCornerCloud, pointSearchCornerInd2[i])
        /\ \A i \in 1..Len(pointSearchSurfInd1) :
             /\ pointSearchSurfInd1[i] >= 0
                  => InCloud(lastSurfaceCloud, pointSearchSurfInd1[i])
             /\ (pointSearchSurfInd2[i] >= 0 /\ pointSearchSurfInd3[i] >= 0)
                  => /\ InCloud(lastSurfaceCloud, pointSearchSurfInd2[i])
                     /\ InCloud(lastSurfaceCloud, pointSearchSurfInd3[i])

----------------------------------------------------------------------------
\* Properties of the degeneracy projector.

\* C18: within a tick the projector is applied to an update only if the
\* degeneracy analysis computed it earlier in that tick; the analysis runs
\* only in iteration 0 and only when that iteration has enough accepted
\* correspondences to solve; a tick without analysis, as when iteration 0
\* is skipped, keeps the degenerate flag false and projects no update.
C18_ProjectorFromSameTick ==
    [][/\ (tick'.matE # <<>> /\ tick'.matE # tick.matE) =>
            /\ SolveStep
            /\ iterCount = 0
            /\ tick'.updates = tick.updates + 1
       /\ tick'.projected > tick.projected =>
            /\ SolveStep
            /\ tick'.matE # <<>>
            /\ isDegenerate'
       /\ (pc' # "idle" /\ tick'.matE = <<>>) =>
            /\ ~isDegenerate'
            /\ tick'.projected = 0]_vars

\* Iteration 0 was skipped and iteration 1 has applied its update,
\* unprojected, where weak eigenvalues are among those the solver can meet.
C18_Witness ==
    /\ scene = "solver"
    /\ pc # "idle"
    /\ tick.iters = 2
    /\ tick.updates = 1
    /\ tick.matE = <<>>
    /\ ~isDegenerate
    /\ tick.projected = 0
    /\ matX = XSmall

\* Iteration 0 found every eigenvalue weak and its update was projected.
C18_ProjectedCase ==
    /\ pc # "idle"
    /\ tick.matE = WeakAll
    /\ isDegenerate
    /\ tick.projected = tick.updates
    /\ tick.updates > 0

====
